---------------------------- MODULE Spec2Model ----------------------------
(***************************************************************************)
(* A model of poeng, a PNG decoder: the chunk reader and header           *)
(* interpreter of src/src/png_parser.rs and the scanline reconstruction   *)
(* of src/src/decoder.rs.                                                  *)
(*                                                                         *)
(* Four specifications share the variables; each one runs one part of the *)
(* pipeline and leaves the others idle:                                    *)
(*   SpecDecode  decoder::decode_data, one step per scanline / per byte    *)
(*   SpecPaeth   decoder::paeth_predictor as a function of (a, b, c)       *)
(*   SpecHeader  PngHeader::try_from on one chunk                          *)
(*   SpecFile    PngFile::from_reader, then PngFile::decode_data_to        *)
(*                                                                         *)
(* A panic of the Rust code (assert_eq!, panic!, an index out of range) is *)
(* an outcome of its own, told apart from an Err value by its name.        *)
(***************************************************************************)
EXTENDS Integers, Sequences, FiniteSets, TLC

VARIABLES
    \* ---- decoder::decode_data ----
    header,            \* the &PngHeader argument
    decompressed_len,  \* decompressed.len(), what the inflate routine returned
    decoded_data,      \* the output buffer (index i of the code is i + 1 here)
    decoded_offset,    \* the write offset
    scanline_index,    \* how many records chunks_exact has handed out
    scanline_offset,   \* the enumerate() index of the inner loop
    filter_type,       \* scanline[0] of the current record
    byte,              \* the filtered byte of the last inner-loop step
    reads,             \* the neighbour reads of the last inner-loop step
    pc,                \* where decode_data is
    result,            \* how decode_data ended
    \* ---- decoder::paeth_predictor ----
    paeth_in,          \* the arguments (a, b, c)
    paeth_out,         \* the value returned, as a sequence of 0 or 1 bytes
    \* ---- PngHeader::try_from ----
    hdr_chunk,         \* the &PngChunk argument
    hdr_result,        \* the Result returned
    \* ---- PngFile::from_reader, PngFile::decode_data_to ----
    src_chunks,        \* the chunks the stream was written from
    stream,            \* the bytes of the reader
    pos,               \* the reader's position: bytes consumed so far
    chunks,            \* the Vec<PngChunk> being built
    rstate,            \* where from_reader is
    file_result,       \* how decode_data_to ended
    inflate_input      \* the bytes handed to inflate_bytes_zlib

decodeVars == <<header, decompressed_len, decoded_data, decoded_offset,
                scanline_index, scanline_offset, filter_type, byte, reads,
                pc, result>>
paethVars == <<paeth_in, paeth_out>>
headerVars == <<hdr_chunk, hdr_result>>
fileVars == <<src_chunks, stream, pos, chunks, rstate, file_result,
              inflate_input>>
vars == <<decodeVars, paethVars, headerVars, fileVars>>

(***************************************************************************)
(* Bounds of the model.                                                    *)
(***************************************************************************)
MaxWidth == 2
MaxHeight == 2
\* Largest output buffer (scanline_length * height) the model decodes.
MaxSamples == 8
\* Largest number of chunks a stream is written from.
MaxChunks == 4
\* Largest number of bytes cut from the end of a stream.
MaxCut == 5

\* The sample bytes inflate may return: 0, and a byte whose double wraps.
InputBytes == {0, 200}
\* The filter tags inflate may return: the five known ones and an unknown one.
InputTags == {0, 1, 2, 3, 4, 5}
\* The bytes paeth_predictor is run on: every fifth value of a u8, 0 to 255.
PaethBytes == {n \in 0..255 : n % 5 = 0}

(***************************************************************************)
(* u8 arithmetic.                                                          *)
(***************************************************************************)
U8 == 256
wrapping_add(x, y) == (x + y) % U8
wrapping_sub(x, y) == (x + U8 - y) % U8
Abs(n) == IF n < 0 THEN -n ELSE n

(***************************************************************************)
(* png_parser: the enumerations.                                           *)
(***************************************************************************)
ColourTypes == {"Greyscale", "Truecolour", "IndexedColour",
                "GreyscaleWithAlpha", "TruecolourWithAlpha"}
BitDepths == {"B1", "B2", "B4", "B8", "B16"}

\* The match of PngHeader::try_from on (colour_type, bit_depth): TRUE for the
\* arms that yield (), FALSE for the arm that returns the error.
LegalCombination_mut(colour_type, bit_depth) ==
    \/ colour_type = "Greyscale" /\ bit_depth \in {"B1", "B2", "B4", "B8", "B16"}
    \/ colour_type = "Truecolour" /\ bit_depth \in {"B4", "B8", "B16"}
    \/ colour_type = "IndexedColour" /\ bit_depth \in {"B1", "B2", "B4", "B8"}
    \/ colour_type = "GreyscaleWithAlpha" /\ bit_depth \in {"B8", "B16"}
    \/ colour_type = "TruecolourWithAlpha" /\ bit_depth \in {"B8", "B16"}
LegalCombination(colour_type, bit_depth) ==
    \/ colour_type = "Greyscale" /\ bit_depth \in {"B1", "B2", "B4", "B8", "B16"}
    \/ colour_type = "Truecolour" /\ bit_depth \in {"B8", "B16"}
    \/ colour_type = "IndexedColour" /\ bit_depth \in {"B1", "B2", "B4", "B8"}
    \/ colour_type = "GreyscaleWithAlpha" /\ bit_depth \in {"B8", "B16"}
    \/ colour_type = "TruecolourWithAlpha" /\ bit_depth \in {"B8", "B16"}

(***************************************************************************)
(* png_parser: chunks and the header.  A chunk type is a record: kind is   *)
(* the variant of ChunkType, tag the four bytes of Unknown([u8; 4]).       *)
(***************************************************************************)
Known(kind) == [kind |-> kind, tag |-> <<>>]
Unknown(tag) == [kind |-> "Unknown", tag |-> tag]

\* read_u32::<BigEndian> on four bytes.
BigEndian(b) == ((b[1] * 256 + b[2]) * 256 + b[3]) * 256 + b[4]

Err(kind) == [kind |-> kind]

\* PngHeader::try_from.  The cursor reads of the payload fail with an
\* IoError once the payload is too short for them, in the order of the code.
try_from(value) ==
    LET data == value.data
        n == Len(data)
    IN IF value.chunk_type # Known("IHDR") THEN Err("UnexpectedChunkType")
       ELSE IF n < 4 THEN Err("IoError")       \* width
       ELSE IF n < 8 THEN Err("IoError")       \* height
       ELSE IF n < 9 THEN Err("IoError")       \* bit_depth
       ELSE IF n < 10 THEN Err("IoError")      \* colour_type
       ELSE
       LET width == BigEndian(SubSeq(data, 1, 4))
           height == BigEndian(SubSeq(data, 5, 8))
           bit_depth_byte == data[9]
           colour_type_byte == data[10]
       IN IF colour_type_byte \notin {0, 2, 3, 4, 6} THEN Err("UnknownColourType")
          ELSE IF bit_depth_byte \notin {1, 2, 4, 8, 16} THEN Err("UnknownBitDepth")
          ELSE
          LET colour_type ==
                  CASE colour_type_byte = 0 -> "Greyscale"
                    [] colour_type_byte = 2 -> "Truecolour"
                    [] colour_type_byte = 3 -> "IndexedColour"
                    [] colour_type_byte = 4 -> "GreyscaleWithAlpha"
                    [] colour_type_byte = 6 -> "TruecolourWithAlpha"
              bit_depth ==
                  CASE bit_depth_byte = 1 -> "B1"
                    [] bit_depth_byte = 2 -> "B2"
                    [] bit_depth_byte = 4 -> "B4"
                    [] bit_depth_byte = 8 -> "B8"
                    [] bit_depth_byte = 16 -> "B16"
          IN IF ~LegalCombination(colour_type, bit_depth)
                THEN Err("InvalidBitDepthColourCombination")
             ELSE IF n < 11 THEN Err("IoError")
             ELSE IF data[11] # 0 THEN Err("UnknownCompressionMethod")
             ELSE IF n < 12 THEN Err("IoError")
             ELSE IF data[12] # 0 THEN Err("UnknownFilterMethod")
             ELSE IF n < 13 THEN Err("IoError")
             ELSE IF data[13] \notin {0, 1} THEN Err("UnknownInterlaceMethod")
             ELSE [kind |-> "Ok",
                   header |-> [width |-> width,
                               height |-> height,
                               bit_depth |-> bit_depth,
                               colour_type |-> colour_type,
                               interlace_method |->
                                   IF data[13] = 0 THEN "None" ELSE "Adam7"]]

\* The 13 bytes of an IHDR payload, each field drawn from a few values
\* that cover every arm of try_from.
HeaderPayloads ==
    {w \o h \o <<d, c, cm, fm, im>> :
        w \in {<<0, 0, 0, 1>>, <<0, 0, 1, 2>>},
        h \in {<<0, 0, 0, 2>>},
        d \in {1, 2, 3, 4, 8, 16},
        c \in {0, 1, 2, 3, 4, 6},
        cm \in {0, 1},
        fm \in {0, 1},
        im \in {0, 1, 2}}

\* The chunks try_from is called on: an IHDR or an IDAT chunk whose payload
\* is a header payload or a prefix of one.
HeaderChunks ==
    {[chunk_type |-> Known(t), data |-> SubSeq(pl, 1, n)] :
        t \in {"IHDR", "IDAT"}, pl \in HeaderPayloads, n \in 0..13}

InitHeader ==
    /\ hdr_chunk \in HeaderChunks
    /\ hdr_result = [kind |-> "none"]
    /\ header = [width |-> 0, height |-> 0, bit_depth |-> "B8",
                 colour_type |-> "Greyscale", interlace_method |-> "None"]
    /\ decompressed_len = 0
    /\ decoded_data = <<>>
    /\ decoded_offset = 0
    /\ scanline_index = 0
    /\ scanline_offset = 0
    /\ filter_type = 0
    /\ byte = 0
    /\ reads = [a |-> [taken |-> FALSE, idx |-> 0],
                b |-> [taken |-> FALSE, idx |-> 0],
                c |-> [taken |-> FALSE, idx |-> 0]]
    /\ pc = "idle"
    /\ result = "none"
    /\ paeth_in = <<0, 0, 0>>
    /\ paeth_out = <<>>
    /\ src_chunks = <<>>
    /\ stream = <<>>
    /\ pos = 0
    /\ chunks = <<>>
    /\ rstate = "idle"
    /\ file_result = "none"
    /\ inflate_input = <<>>

\* PngFile::try_parse_header on a file whose first chunk is hdr_chunk.
TryParseHeader ==
    /\ hdr_result.kind = "none"
    /\ hdr_result' = try_from(hdr_chunk)
    /\ UNCHANGED <<hdr_chunk, decodeVars, paethVars, fileVars>>

NextHeader == TryParseHeader

SpecHeader == InitHeader /\ [][NextHeader]_vars

(***************************************************************************)
(* png_parser: the chunk reader.  The reader is a byte stream and a        *)
(* position; a read past the end is the IoError of read_exact.             *)
(***************************************************************************)
MAGIC == <<137, 80, 78, 71, 13, 10, 26, 10>>

\* The four bytes of a chunk type, and the match of parse_png_chunk on them.
TypeBytes(chunk_type) ==
    CASE chunk_type.kind = "IHDR" -> <<73, 72, 68, 82>>
      [] chunk_type.kind = "PLTE" -> <<80, 76, 84, 69>>
      [] chunk_type.kind = "IDAT" -> <<73, 68, 65, 84>>
      [] chunk_type.kind = "IEND" -> <<73, 69, 78, 68>>
      [] chunk_type.kind = "Unknown" -> chunk_type.tag
ChunkTypeOf(b) ==
    CASE b = <<73, 72, 68, 82>> -> Known("IHDR")
      [] b = <<80, 76, 84, 69>> -> Known("PLTE")
      [] b = <<73, 68, 65, 84>> -> Known("IDAT")
      [] b = <<73, 69, 78, 68>> -> Known("IEND")
      [] OTHER -> Unknown(b)

Min(m, n) == IF m < n THEN m ELSE n

\* parse_png_chunk at position p of stream s: read_exact of the length and
\* of the type, take(length).read_to_end (which stops at the end of the
\* stream without an error), read_exact of the CRC.
parse_png_chunk_mut(s, p) ==
    IF Len(s) - p < 8 THEN [ok |-> FALSE, pos |-> Len(s)]
    ELSE
    LET length == BigEndian(SubSeq(s, p + 1, p + 4))
        chunk_type == ChunkTypeOf(SubSeq(s, p + 5, p + 8))
        got == Min(length, Len(s) - (p + 8))
        data == SubSeq(s, p + 9, p + 8 + got)
        q == p + 8 + got
    IN [ok |-> TRUE,
        pos |-> q,
        chunk |-> [length |-> length, chunk_type |-> chunk_type,
                   data |-> data, crc |-> <<>>]]
parse_png_chunk(s, p) ==
    IF Len(s) - p < 4 THEN [ok |-> FALSE, pos |-> Len(s)]
    ELSE IF Len(s) - p < 8 THEN [ok |-> FALSE, pos |-> Len(s)]
    ELSE
    LET length == BigEndian(SubSeq(s, p + 1, p + 4))
        chunk_type == ChunkTypeOf(SubSeq(s, p + 5, p + 8))
        got == Min(length, Len(s) - (p + 8))
        data == SubSeq(s, p + 9, p + 8 + got)
        q == p + 8 + got
    IN IF Len(s) - q < 4 THEN [ok |-> FALSE, pos |-> Len(s)]
       ELSE [ok |-> TRUE,
             pos |-> q + 4,
             chunk |-> [length |-> length, chunk_type |-> chunk_type,
                        data |-> data, crc |-> SubSeq(s, q + 1, q + 4)]]

\* How a file is written: the length, big-endian, the type, the payload,
\* the four CRC bytes (which the reader stores and never verifies).
ToBigEndian(n) ==
    <<(n \div 16777216) % 256, (n \div 65536) % 256, (n \div 256) % 256, n % 256>>
CrcBytes == <<222, 173, 190, 239>>
WriteChunk(c) ==
    ToBigEndian(Len(c.data)) \o TypeBytes(c.chunk_type) \o c.data \o CrcBytes
RECURSIVE WriteChunks(_)
WriteChunks(cs) ==
    IF cs = <<>> THEN <<>> ELSE WriteChunk(Head(cs)) \o WriteChunks(Tail(cs))

\* The chunks a stream is written from: a header chunk that try_from takes
\* and one it rejects (Truecolour, depth 4), image data, a palette, an
\* unrecognised chunk, the terminator.
SourceChunks ==
    {[chunk_type |-> Known("IHDR"), data |-> <<0, 0, 0, 1, 0, 0, 0, 1, 8, 0, 0, 0, 0>>],
     [chunk_type |-> Known("IHDR"), data |-> <<0, 0, 0, 1, 0, 0, 0, 1, 4, 2, 0, 0, 0>>],
     [chunk_type |-> Known("IDAT"), data |-> <<1>>],
     [chunk_type |-> Known("IDAT"), data |-> <<2, 3>>],
     [chunk_type |-> Known("PLTE"), data |-> <<>>],
     [chunk_type |-> Unknown(<<116, 69, 88, 116>>), data |-> <<7>>],
     [chunk_type |-> Known("IEND"), data |-> <<>>]}

DropLast(s, n) == SubSeq(s, 1, Len(s) - Min(n, Len(s)))

\* The streams from_reader is run on: the signature and up to MaxChunks
\* chunks, up to MaxCut bytes short; and one with a wrong signature.
FileInputs ==
    {[src |-> cs, stream |-> DropLast(MAGIC \o WriteChunks(cs), cut)] :
        cs \in UNION {[1..n -> SourceChunks] : n \in 0..MaxChunks},
        cut \in 0..MaxCut}
    \cup
    {[src |-> <<>>, stream |-> <<137, 80, 78, 71, 13, 10, 26, 11>>]}

(***************************************************************************)
(* decoder: the five filters.  A filter reads up to three neighbours of    *)
(* decoded[offset] and writes decoded[offset].  An index outside the       *)
(* buffer panics (Rust checks every index; an underflowing usize           *)
(* subtraction panics or wraps to an index that is out of range).          *)
(***************************************************************************)
\* A neighbour read that was not taken, and one taken at index idx.
NoRead == [taken |-> FALSE, idx |-> 0]
ReadOf(idx) == [taken |-> TRUE, idx |-> idx]
NoReads == [a |-> NoRead, b |-> NoRead, c |-> NoRead]

InBuffer(decoded, idx) == idx >= 0 /\ idx < Len(decoded)
\* The value a read yields: 0 when it is not taken (and when the index is
\* out of range, where the call panics before the value is used).
ValueOf(decoded, r) ==
    IF r.taken /\ InBuffer(decoded, r.idx) THEN decoded[r.idx + 1] ELSE 0

\* let a = if scanline_offset > 0 { decoded[offset - 1] } else { 0 }
read_a(offset, scanline_off) ==
    IF scanline_off > 0 THEN ReadOf(offset - 1) ELSE NoRead

\* let b = if offset > scanline_offset { decoded[offset - scanline_length] } else { 0 }
read_b_mut(offset, scanline_off, scanline_length) ==
    IF offset > 0 THEN ReadOf(offset - scanline_length) ELSE NoRead
read_b(offset, scanline_off, scanline_length) ==
    IF offset > scanline_off THEN ReadOf(offset - scanline_length) ELSE NoRead

\* let c = if scanline_offset > 0 && offset > scanline_offset
\*             { decoded[offset - scanline_length - 1] } else { 0 }
read_c(offset, scanline_off, scanline_length) ==
    IF scanline_off > 0 /\ offset > scanline_off
    THEN ReadOf(offset - scanline_length - 1)
    ELSE NoRead

paeth_diff(a, b) == Abs(a - b) % U8

\* Wrapping<u8> arithmetic: p = a + b - c is reduced mod 256.
paeth_predictor(a, b, c) ==
    LET p == wrapping_sub(wrapping_add(a, b), c)
        pa == paeth_diff(p, a)
        pb == paeth_diff(p, b)
        pc_ == paeth_diff(p, c)
    IN IF pa <= pb /\ pa <= pc_ THEN a
       ELSE IF pb <= pc_ THEN b
       ELSE c

\* What one filter call does: the reads it takes, whether it panics on an
\* index, and the buffer after its write decoded[offset] = x + predictor.
FilterStep(decoded, offset, x, rs, predictor) ==
    LET taken == {r \in {rs.a, rs.b, rs.c} : r.taken}
        panics == \/ \E r \in taken : ~InBuffer(decoded, r.idx)
                  \/ ~InBuffer(decoded, offset)
    IN [reads |-> rs,
        panics |-> panics,
        decoded |-> IF panics THEN decoded
                    ELSE [decoded EXCEPT ![offset + 1] = wrapping_add(x, predictor)]]

filter_none(x, offset, scanline_off, decoded, scanline_length) ==
    FilterStep(decoded, offset, x, NoReads, 0)

filter_sub(x, offset, scanline_off, decoded, scanline_length) ==
    LET rs == [NoReads EXCEPT !.a = read_a(offset, scanline_off)]
        a == ValueOf(decoded, rs.a)
    IN FilterStep(decoded, offset, x, rs, a)

filter_up(x, offset, scanline_off, decoded, scanline_length) ==
    LET rs == [NoReads EXCEPT !.b = read_b(offset, scanline_off, scanline_length)]
        b == ValueOf(decoded, rs.b)
    IN FilterStep(decoded, offset, x, rs, b)

\* a.wrapping_add(b) / 2: the sum is a u8 before it is halved.
filter_average(x, offset, scanline_off, decoded, scanline_length) ==
    LET rs == [NoReads EXCEPT !.a = read_a(offset, scanline_off),
                              !.b = read_b(offset, scanline_off, scanline_length)]
        a == ValueOf(decoded, rs.a)
        b == ValueOf(decoded, rs.b)
    IN FilterStep(decoded, offset, x, rs, wrapping_add(a, b) \div 2)

filter_paeth(x, offset, scanline_off, decoded, scanline_length) ==
    LET rs == [a |-> read_a(offset, scanline_off),
               b |-> read_b(offset, scanline_off, scanline_length),
               c |-> read_c(offset, scanline_off, scanline_length)]
        a == ValueOf(decoded, rs.a)
        b == ValueOf(decoded, rs.b)
        c == ValueOf(decoded, rs.c)
    IN FilterStep(decoded, offset, x, rs, paeth_predictor(a, b, c))

\* let filter = match filter_type { 0 => filter_none, ... 4 => filter_paeth }
Filter(tag, x, offset, scanline_off, decoded, scanline_length) ==
    CASE tag = 0 -> filter_none(x, offset, scanline_off, decoded, scanline_length)
      [] tag = 1 -> filter_sub(x, offset, scanline_off, decoded, scanline_length)
      [] tag = 2 -> filter_up(x, offset, scanline_off, decoded, scanline_length)
      [] tag = 3 -> filter_average(x, offset, scanline_off, decoded, scanline_length)
      [] tag = 4 -> filter_paeth(x, offset, scanline_off, decoded, scanline_length)

(***************************************************************************)
(* decoder::decode_data.                                                   *)
(***************************************************************************)
bytes_per_pixel(colour_type) ==
    CASE colour_type = "Greyscale" -> 1
      [] colour_type = "Truecolour" -> 3
      [] colour_type = "IndexedColour" -> 1
      [] colour_type = "GreyscaleWithAlpha" -> 1
      [] colour_type = "TruecolourWithAlpha" -> 4

scanline_length == header.width * bytes_per_pixel(header.colour_type)
scanline_length_with_filter == scanline_length + 1

Zeros(n) == [i \in 1..n |-> 0]

\* The headers decode_data is called with: what PngHeader::try_from returns.
Headers ==
    {h \in [width : 0..MaxWidth, height : 0..MaxHeight, bit_depth : BitDepths,
            colour_type : ColourTypes, interlace_method : {"None"}] :
        /\ LegalCombination(h.colour_type, h.bit_depth)
        /\ h.width * bytes_per_pixel(h.colour_type) * h.height <= MaxSamples}

\* The lengths inflate may return for a header: up to one record more than
\* height records.
StreamLengths(h) ==
    0..((h.height + 1) * (h.width * bytes_per_pixel(h.colour_type) + 1))

\* decode_data is about to run on a header; the other parts are idle.
InitDecode ==
    /\ header \in Headers
    /\ decompressed_len = 0
    /\ decoded_data = <<>>
    /\ decoded_offset = 0
    /\ scanline_index = 0
    /\ scanline_offset = 0
    /\ filter_type = 0
    /\ byte = 0
    /\ reads = NoReads
    /\ pc = "begin"
    /\ result = "none"
    /\ paeth_in = <<0, 0, 0>>
    /\ paeth_out = <<>>
    /\ hdr_chunk = [chunk_type |-> [kind |-> "IEND", tag |-> <<>>], data |-> <<>>]
    /\ hdr_result = [kind |-> "none"]
    /\ src_chunks = <<>>
    /\ stream = <<>>
    /\ pos = 0
    /\ chunks = <<>>
    /\ rstate = "idle"
    /\ file_result = "none"
    /\ inflate_input = <<>>

\* The end of decode_data: nothing of the loop state changes any more.
Ends(outcome) ==
    /\ pc' = "done"
    /\ result' = outcome

\* Lines 120-138: the bit-depth assertion, the inflate call, the buffer.
DecodeBegin ==
    /\ pc = "begin"
    /\ IF header.bit_depth # "B8"
       THEN /\ Ends("PanicBitDepth")
            /\ UNCHANGED <<decompressed_len, decoded_data>>
       ELSE \/ /\ Ends("InflateError")
               /\ UNCHANGED <<decompressed_len, decoded_data>>
            \/ /\ decompressed_len' \in StreamLengths(header)
               /\ decoded_data' = Zeros(scanline_length * header.height)
               /\ pc' = "scanline"
               /\ UNCHANGED result
    /\ UNCHANGED <<header, decoded_offset, scanline_index, scanline_offset,
                   filter_type, byte, reads>>
    /\ UNCHANGED <<paethVars, headerVars, fileVars>>

\* chunks_exact: another record is handed out while a whole one is left.
HasScanline ==
    decompressed_len - scanline_index * scanline_length_with_filter
        >= scanline_length_with_filter

\* Lines 140-165: the next record and the match on its tag.  A record with
\* no sample bytes (scanline_length = 0) is finished at once.
NextScanline ==
    /\ pc = "scanline"
    /\ HasScanline
    /\ \E tag \in InputTags :
        /\ filter_type' = tag
        /\ IF tag \in 0..4
           THEN /\ scanline_offset' = 0
                /\ IF scanline_length = 0
                   THEN /\ scanline_index' = scanline_index + 1
                        /\ pc' = "scanline"
                   ELSE /\ scanline_index' = scanline_index
                        /\ pc' = "bytes"
                /\ UNCHANGED result
           ELSE /\ Ends("PanicFilterType")
                /\ UNCHANGED <<scanline_index, scanline_offset>>
    /\ UNCHANGED <<header, decompressed_len, decoded_data, decoded_offset,
                   byte, reads>>
    /\ UNCHANGED <<paethVars, headerVars, fileVars>>

\* Lines 167-176: one step of the inner loop.
ApplyFilter ==
    /\ pc = "bytes"
    /\ \E x \in InputBytes :
        LET out == Filter(filter_type, x, decoded_offset, scanline_offset,
                          decoded_data, scanline_length)
        IN /\ byte' = x
           /\ reads' = out.reads
           /\ decoded_data' = out.decoded
           /\ IF out.panics
              THEN /\ Ends("PanicIndex")
                   /\ UNCHANGED <<decoded_offset, scanline_offset, scanline_index>>
              ELSE /\ decoded_offset' = decoded_offset + 1
                   /\ scanline_offset' = scanline_offset + 1
                   /\ IF scanline_offset + 1 = scanline_length
                      THEN /\ scanline_index' = scanline_index + 1
                           /\ pc' = "scanline"
                      ELSE /\ scanline_index' = scanline_index
                           /\ pc' = "bytes"
                   /\ UNCHANGED result
    /\ UNCHANGED <<header, decompressed_len, filter_type>>
    /\ UNCHANGED <<paethVars, headerVars, fileVars>>

\* Lines 179-181: the remainder of chunks_exact is dropped, then
\* assert_eq!(decoded_offset, decoded_data.len()) and Ok(decoded_data).
DecodeEnd ==
    /\ pc = "scanline"
    /\ ~HasScanline
    /\ IF decoded_offset = Len(decoded_data)
       THEN Ends("Ok")
       ELSE Ends("PanicAssertLength")
    /\ UNCHANGED <<header, decompressed_len, decoded_data, decoded_offset,
                   scanline_index, scanline_offset, filter_type, byte, reads>>
    /\ UNCHANGED <<paethVars, headerVars, fileVars>>

NextDecode ==
    \/ DecodeBegin
    \/ NextScanline
    \/ ApplyFilter
    \/ DecodeEnd

SpecDecode == InitDecode /\ [][NextDecode]_vars

(***************************************************************************)
(* decoder::paeth_predictor on its own: the arguments are drawn, the       *)
(* function is applied once.                                               *)
(***************************************************************************)
InitPaeth ==
    /\ paeth_in \in PaethBytes \X PaethBytes \X PaethBytes
    /\ paeth_out = <<>>
    /\ header = [width |-> 0, height |-> 0, bit_depth |-> "B8",
                 colour_type |-> "Greyscale", interlace_method |-> "None"]
    /\ decompressed_len = 0
    /\ decoded_data = <<>>
    /\ decoded_offset = 0
    /\ scanline_index = 0
    /\ scanline_offset = 0
    /\ filter_type = 0
    /\ byte = 0
    /\ reads = NoReads
    /\ pc = "idle"
    /\ result = "none"
    /\ hdr_chunk = [chunk_type |-> [kind |-> "IEND", tag |-> <<>>], data |-> <<>>]
    /\ hdr_result = [kind |-> "none"]
    /\ src_chunks = <<>>
    /\ stream = <<>>
    /\ pos = 0
    /\ chunks = <<>>
    /\ rstate = "idle"
    /\ file_result = "none"
    /\ inflate_input = <<>>

CallPaeth ==
    /\ paeth_out = <<>>
    /\ paeth_out' = <<paeth_predictor(paeth_in[1], paeth_in[2], paeth_in[3])>>
    /\ UNCHANGED <<paeth_in, decodeVars, headerVars, fileVars>>

NextPaeth == CallPaeth

SpecPaeth == InitPaeth /\ [][NextPaeth]_vars

(***************************************************************************)
(* PngFile::from_reader, then PngFile::decode_data_to on the file.         *)
(***************************************************************************)
InitFile ==
    /\ \E inp \in FileInputs :
        /\ src_chunks = inp.src
        /\ stream = inp.stream
    /\ pos = 0
    /\ chunks = <<>>
    /\ rstate = "magic"
    /\ file_result = "none"
    /\ inflate_input = <<>>
    /\ header = [width |-> 0, height |-> 0, bit_depth |-> "B8",
                 colour_type |-> "Greyscale", interlace_method |-> "None"]
    /\ decompressed_len = 0
    /\ decoded_data = <<>>
    /\ decoded_offset = 0
    /\ scanline_index = 0
    /\ scanline_offset = 0
    /\ filter_type = 0
    /\ byte = 0
    /\ reads = NoReads
    /\ pc = "idle"
    /\ result = "none"
    /\ paeth_in = <<0, 0, 0>>
    /\ paeth_out = <<>>
    /\ hdr_chunk = [chunk_type |-> [kind |-> "IEND", tag |-> <<>>], data |-> <<>>]
    /\ hdr_result = [kind |-> "none"]

\* from_reader, lines 230-237: the signature.
ReadMagic ==
    /\ rstate = "magic"
    /\ IF Len(stream) - pos < 8
       THEN /\ pos' = Len(stream)
            /\ rstate' = "IoError"
       ELSE /\ pos' = pos + 8
            /\ rstate' = IF SubSeq(stream, pos + 1, pos + 8) # MAGIC
                          THEN "InvalidMagic"
                          ELSE "chunks"
    /\ UNCHANGED <<src_chunks, stream, chunks, file_result, inflate_input>>
    /\ UNCHANGED <<decodeVars, paethVars, headerVars>>

\* from_reader, lines 239-249: one turn of the loop.
ReadChunk ==
    /\ rstate = "chunks"
    /\ LET r == parse_png_chunk(stream, pos)
       IN /\ pos' = r.pos
          /\ IF ~r.ok
             THEN /\ rstate' = "IoError"
                  /\ UNCHANGED chunks
             ELSE /\ chunks' = Append(chunks, r.chunk)
                  /\ rstate' = IF r.chunk.chunk_type = Known("IEND")
                                THEN "ok"
                                ELSE "chunks"
    /\ UNCHANGED <<src_chunks, stream, file_result, inflate_input>>
    /\ UNCHANGED <<decodeVars, paethVars, headerVars>>

\* PngFile::image_data_chunks: the IDAT chunks, in the order of the file.
image_data_chunks(cs) == SelectSeq(cs, LAMBDA c : c.chunk_type = Known("IDAT"))

\* PngFile::decode_data_to: the header of chunks[0], then decoder::decode_data
\* up to its inflate call.  decode_data takes one &PngChunk and inflates its
\* data; the caller offers it the chunks of image_data_chunks, so the chunk
\* it inflates is any one of them (with no IDAT chunk there is none to
\* inflate and the step does not happen).
DecodeDataTo ==
    /\ rstate = "ok"
    /\ file_result = "none"
    /\ LET h == try_from(chunks[1])
           idat == image_data_chunks(chunks)
       IN IF h.kind # "Ok"
          THEN /\ file_result' = h.kind
               /\ UNCHANGED inflate_input
          ELSE \E i \in 1..Len(idat) :
               /\ inflate_input' = idat[i].data
               /\ file_result' = "Inflated"
    /\ UNCHANGED <<src_chunks, stream, pos, chunks, rstate>>
    /\ UNCHANGED <<decodeVars, paethVars, headerVars>>

NextFile ==
    \/ ReadMagic
    \/ ReadChunk
    \/ DecodeDataTo

SpecFile == InitFile /\ [][NextFile]_vars

(***************************************************************************)
(* Claims about decode_data, checked under SpecDecode.                     *)
(***************************************************************************)
\* The outcomes that are panics, not values returned to the caller.
Panics == {"PanicBitDepth", "PanicFilterType", "PanicIndex", "PanicAssertLength"}
\* decode_data returned Err(..) to its caller.
ReturnedErr == pc = "done" /\ result \notin Panics /\ result # "Ok"

\* The inner loop has just written decoded[decoded_offset - 1] from `byte`
\* under filter `filter_type`, at column scanline_offset - 1.
JustFiltered == pc \in {"bytes", "scanline"} /\ scanline_offset > 0
Written == decoded_data[decoded_offset]
Column == scanline_offset - 1

\* The stream inflate returned has exactly height records.
ExactLength ==
    /\ pc # "begin"
    /\ result \notin {"PanicBitDepth", "InflateError"}
    /\ decompressed_len = header.height * scanline_length_with_filter

\* C1: a byte decoded with filter tag 1 (Sub) is (filtered byte + a) mod 256
\* with a the reconstructed byte bytes_per_pixel positions to the left in the
\* same scanline, and a = 0 at columns below bytes_per_pixel.
C1_SubAddsBytePerPixelLeft ==
    (JustFiltered /\ filter_type = 1) =>
        LET bpp == bytes_per_pixel(header.colour_type)
            a == IF Column < bpp THEN 0 ELSE decoded_data[decoded_offset - bpp]
        IN Written = (byte + a) % 256

\* C3: a byte decoded with filter tag 3 (Average) is
\* (x + floor((a + b) / 2)) mod 256, the sum a + b not reduced mod 256.
C3_AverageHalvesWideSum ==
    (JustFiltered /\ filter_type = 3) =>
        LET a == ValueOf(decoded_data, reads.a)
            b == ValueOf(decoded_data, reads.b)
        IN Written = (byte + ((a + b) \div 2)) % 256

\* C4: a stream whose length is not height * (1 + scanline_length) makes
\* reconstruction return an error value: no panic, no buffer.
C4_LengthMismatchReturnsErr ==
    (/\ pc = "done"
     /\ header.width > 0 /\ header.height > 0
     /\ result \notin {"PanicBitDepth", "InflateError", "PanicFilterType"}
     /\ decompressed_len # header.height * scanline_length_with_filter)
        => ReturnedErr

\* C5: a record whose tag is outside 0..4 makes reconstruction return an
\* error value (InvalidFilterType): no panic, no buffer.
C5_BadTagReturnsErr ==
    (pc = "done" /\ filter_type \notin 0..4) => ReturnedErr

\* C6: a header whose bit depth is not 8 makes decoding return an error
\* value of its own (unsupported bit depth): no panic.
C6_UnsupportedDepthReturnsErr ==
    (pc = "done" /\ header.bit_depth # "B8") =>
        (ReturnedErr /\ result # "InflateError")

\* The offset the last inner-loop step wrote, or panicked at.
WriteOffset ==
    IF result = "PanicIndex" THEN decoded_offset ELSE decoded_offset - 1

\* C10: on a stream of exactly height records: record k is written to row k
\* and the write offset advances by one per sample byte; a neighbour read
\* that is taken is a at offset - 1, b at offset - scanline_length, c at
\* offset - scanline_length - 1, each an index >= 0 and below the write
\* offset; b and c are not read on the first scanline; no index panics and
\* the length assertion holds, so the run ends Ok with the write offset at
\* scanline_length * height unless a tag is unknown.
C10_ReadsAreOfBytesAlreadyWritten ==
    ExactLength =>
        /\ scanline_index <= header.height
        /\ pc = "scanline" => decoded_offset = scanline_index * scanline_length
        /\ pc = "bytes" =>
               /\ scanline_offset < scanline_length
               /\ decoded_offset = scanline_index * scanline_length + scanline_offset
        /\ \A r \in {reads.a, reads.b, reads.c} :
               r.taken => (r.idx >= 0 /\ r.idx < WriteOffset)
        /\ reads.a.taken => reads.a.idx = WriteOffset - 1
        /\ reads.b.taken => reads.b.idx = WriteOffset - scanline_length
        /\ reads.c.taken => reads.c.idx = WriteOffset - scanline_length - 1
        /\ (decoded_offset > 0 /\ WriteOffset < scanline_length) =>
               (~reads.b.taken /\ ~reads.c.taken)
        /\ pc = "done" =>
               /\ result \in {"Ok", "PanicFilterType"}
               /\ result = "Ok" =>
                      decoded_offset = scanline_length * header.height

\* A two-row image decoded to the end whose last byte read all of a, b, c.
C10_Witness ==
    /\ ExactLength
    /\ pc = "done"
    /\ result = "Ok"
    /\ header.height = 2
    /\ reads.a.taken /\ reads.b.taken /\ reads.c.taken

(***************************************************************************)
(* Claims about paeth_predictor, checked under SpecPaeth.                  *)
(***************************************************************************)
\* The predictor of the PNG filter: p = a + b - c as an integer, the
\* candidate nearest to p, a before b before c on a tie.
PaethNearest(a, b, c) ==
    LET p == a + b - c
        dist(x) == Abs(p - x)
        best == CHOOSE d \in {dist(a), dist(b), dist(c)} :
                    \A e \in {dist(a), dist(b), dist(c)} : d <= e
    IN IF dist(a) = best THEN a
       ELSE IF dist(b) = best THEN b
       ELSE c

\* C2: for all a, b, c the Paeth predictor returns the candidate among
\* a, b, c nearest to p = a + b - c, p computed without wraparound, ties
\* broken in the order a, b, c.
C2_PaethPicksNearestToWideP ==
    paeth_out # <<>> =>
        paeth_out[1] = PaethNearest(paeth_in[1], paeth_in[2], paeth_in[3])

(***************************************************************************)
(* Claims about PngHeader::try_from, checked under SpecHeader.             *)
(***************************************************************************)
\* The legal (colour type, bit depth) pairs of PNG, as the numbers of the
\* IHDR payload.
LegalPairs ==
    ({0} \X {1, 2, 4, 8, 16}) \cup ({2} \X {8, 16}) \cup ({3} \X {1, 2, 4, 8})
        \cup ({4} \X {8, 16}) \cup ({6} \X {8, 16})
ColourTypeNumber(colour_type) ==
    CASE colour_type = "Greyscale" -> 0
      [] colour_type = "Truecolour" -> 2
      [] colour_type = "IndexedColour" -> 3
      [] colour_type = "GreyscaleWithAlpha" -> 4
      [] colour_type = "TruecolourWithAlpha" -> 6
BitDepthNumber(bit_depth) ==
    CASE bit_depth = "B1" -> 1
      [] bit_depth = "B2" -> 2
      [] bit_depth = "B4" -> 4
      [] bit_depth = "B8" -> 8
      [] bit_depth = "B16" -> 16

\* hdr_chunk is an IHDR chunk that carries a known colour type and a known
\* bit depth.
KnownPair ==
    /\ hdr_chunk.chunk_type = Known("IHDR")
    /\ Len(hdr_chunk.data) >= 10
    /\ hdr_chunk.data[9] \in {1, 2, 4, 8, 16}
    /\ hdr_chunk.data[10] \in {0, 2, 3, 4, 6}

\* C8: an IHDR chunk with a known colour type and a known bit depth whose
\* pair is not legal is answered InvalidBitDepthColourCombination, whatever
\* bytes follow; a header that is returned has a legal pair, the one of the
\* payload.
C8_IllegalPairIsRejected ==
    hdr_result.kind # "none" =>
        /\ (KnownPair /\ <<hdr_chunk.data[10], hdr_chunk.data[9]>> \notin LegalPairs)
               => hdr_result.kind = "InvalidBitDepthColourCombination"
        /\ hdr_result.kind = "Ok" =>
               /\ KnownPair
               /\ ColourTypeNumber(hdr_result.header.colour_type) = hdr_chunk.data[10]
               /\ BitDepthNumber(hdr_result.header.bit_depth) = hdr_chunk.data[9]
               /\ <<hdr_chunk.data[10], hdr_chunk.data[9]>> \in LegalPairs

\* Truecolour with depth 4 was rejected although the compression, filter
\* and interlace bytes are all unknown values.
C8_Witness ==
    /\ hdr_result.kind = "InvalidBitDepthColourCombination"
    /\ Len(hdr_chunk.data) = 13
    /\ hdr_chunk.data[9] = 4
    /\ hdr_chunk.data[10] = 2
    /\ hdr_chunk.data[11] = 1
    /\ hdr_chunk.data[12] = 1
    /\ hdr_chunk.data[13] = 2

(***************************************************************************)
(* Claims about the chunk reader and the file, checked under SpecFile.     *)
(***************************************************************************)
RECURSIVE Concat(_)
Concat(ss) == IF ss = <<>> THEN <<>> ELSE Head(ss) \o Concat(Tail(ss))
Payloads(cs) == [i \in 1..Len(cs) |-> cs[i].data]

\* C7: the bytes handed to the decompressor are the payloads of all IDAT
\* chunks of the file, concatenated in file order; other chunks add nothing.
C7_InflateGetsAllIdatPayloads ==
    file_result = "Inflated" =>
        inflate_input =
            Concat(Payloads(SelectSeq(chunks, LAMBDA c : c.chunk_type.kind = "IDAT")))

\* The number of stream bytes the first k written chunks take.
RECURSIVE WrittenLength(_, _)
WrittenLength(cs, k) ==
    IF k = 0 THEN 0 ELSE WrittenLength(cs, k - 1) + 12 + Len(cs[k].data)

\* C9: when from_reader returns a file, its chunks are the chunks the
\* stream was written from, in that order, up to and including the first
\* IEND chunk, which is the last and the only IEND of the sequence; and the
\* position is the end of that chunk's CRC, whatever follows in the stream.
C9_ReaderStopsAfterFirstIend ==
    rstate = "ok" =>
        LET k == Len(chunks)
        IN /\ k >= 1
           /\ k <= Len(src_chunks)
           /\ \A i \in 1..k :
                /\ chunks[i].chunk_type = src_chunks[i].chunk_type
                /\ chunks[i].data = src_chunks[i].data
                /\ chunks[i].length = Len(src_chunks[i].data)
                /\ chunks[i].crc = CrcBytes
                /\ (chunks[i].chunk_type.kind = "IEND") <=> (i = k)
           /\ pos = Len(MAGIC) + WrittenLength(src_chunks, k)

\* A file was returned from a stream that goes on after its first IEND.
C9_Witness ==
    /\ rstate = "ok"
    /\ Len(chunks) >= 2
    /\ Len(src_chunks) > Len(chunks)
    /\ pos < Len(stream)

=============================================================================
